---- MODULE Spec2Model ----
(***************************************************************************)
(* Model of the alarm stack (controller/lib/core/alarm.cpp), of the        *)
(* test-mode hardware abstraction layer (hal.h, TEST_MODE branch) and of   *)
(* the sensor transfer functions (SensorTests) of the ventilator           *)
(* controller, with the sensor pipeline as the specification describes it  *)
(* (sensors.cpp is not among the sources) and float as IEEE-754 binary32.  *)
(*                                                                         *)
(* The C functions are operators over the values they read and return the  *)
(* values they write; one action per call wraps each of them and also      *)
(* keeps the caller's side (arguments, out-parameters, return value) and   *)
(* the history variables the properties are stated with.                   *)
(*                                                                         *)
(* An operator named after a function plus a suffix (stack_pop_unchecked,  *)
(* alarm_add_evict, ...) is a faulty variant of that function; no action   *)
(* uses it. Each property is also run with one of them in place of the     *)
(* function, and must then fail.                                           *)
(***************************************************************************)
EXTENDS Integers, Sequences, FiniteSets, TLC

\* ------------------------------------------------------------- sizes
\* Capacity of the alarm stack and length of an alarm's payload. Both are
\* macros of alarm.h; alarm.cpp only uses them (lines 21, 29, 70, 97).
ALARM_NODES == 2
ALARM_DATALEN == 2

\* Calls to Hal.delay in one run (keeps the set of clock values finite), and
\* how many of them a run that also fills the alarm stack makes.
MaxDelays == 2
MaxAlarmDelays == 1

\* Readings a test takes of one sensor channel after sensors_init.
MaxTicks == 4

\* Pressures tried per kPa of a sensor's range.
PressureSteps == 100

\* uint32_t (millis_, timestamps, delay's argument) is kept as <<high, low>>
\* 16-bit halves: its values exceed the integers of the model checker.
Half == 65536

\* Arduino Uno pin counts of the fake HAL's arrays.
NumAnalogPins == 6
NumDigitalPins == 14

\* ------------------------------------------------------------- inputs
\* enum dataID values used as alarm causes by the callers of the model.
Causes == {1, 2}
OneCause == {1}

\* Payload buffers a caller passes to alarm_add: ALARM_DATALEN bytes that are
\* copied plus one byte behind them that must not be.
BufIdx == 0 .. ALARM_DATALEN
DataIdx == 0 .. (ALARM_DATALEN - 1)
BufferA == [i \in BufIdx |-> 10 + i]
BufferB == [i \in BufIdx |-> 20 + i]
Buffers == {BufferA, BufferB}

\* Arguments of Hal.delay.
Delays == {<<0, 1>>, <<Half - 1, Half - 1>>}
ShortDelays == {<<0, 1>>}

\* ------------------------------------------------------------- types
VC_STATUS_SUCCESS == "VC_STATUS_SUCCESS"
VC_STATUS_FAILURE == "VC_STATUS_FAILURE"

\* int8_t: the type of stack.top.
Int8(x) == ((x + 128) % 256) - 128

\* uint32_t addition: the carry out of the high half is lost.
U32Add(a, b) ==
    LET lo == a[2] + b[2]
        hi == a[1] + b[1] + (lo \div Half)
    IN  <<hi % Half, lo % Half>>
U32Zero == <<0, 0>>
U32One == <<0, 1>>

\* An alarm_t whose bytes are all zero (static storage).
ZeroAlarm == [alarm |-> 0, timestamp |-> U32Zero, data |-> [i \in DataIdx |-> 0]]

\* alarm_read's out-parameters are locals of its caller. What they hold before
\* a call is the caller's business: zeroes, or whatever was there (Garbage).
\* Outside a read they are dead (NoOut).
Garbage == [alarm |-> 99, timestamp |-> <<99, 99>>, data |-> [i \in DataIdx |-> 99]]
NoOut == [alarm |-> -1, timestamp |-> <<-1, -1>>, data |-> [i \in DataIdx |-> -1]]
OutBefore == {ZeroAlarm, Garbage}

VARIABLES
    stack,          \* alarm.cpp: the static alarm_stack_t {alarm[], top}
    millis_,        \* HalApi::millis_
    analog_pin_values_,
    digital_pin_values_,
    digital_pin_modes_,
    pwm_pin_values_,
    data,           \* caller: the payload buffer handed to alarm_add
    out,            \* caller: alarm_read's out-parameters after the last call, if a read
    ret,            \* caller: what the last call returned, <<kind>> or <<kind, value>>
    last_call,      \* history: the last call, <<name, arguments...>>
    top_before,     \* history: stack.top when the last call was made
    inited,         \* history: alarm_init has been called
    hist,           \* history: the alarms recorded and not yet removed since alarm_init
    streak,         \* history: alarm_add calls since alarm_init with no remove between, -1 if none
    ndelay,         \* history: number of Hal.delay calls
    last_set,       \* history: per analog pin, the last value given to test_setAnalogPin (0 if none)
    wrapped,        \* history: the delays since boot add up to 2^32 ms or more
    consumer,       \* caller: an alarm consumer's drain loop (position, what it has read)
    channels,       \* sensors: per channel its ring buffer, write position and baseline
    probe,          \* history: per channel the counts it sampled since sensors_init and its last reading
    bench           \* test: the buffers of a transfer-function call and the pressure got back

vars == <<stack, millis_, analog_pin_values_, digital_pin_values_,
          digital_pin_modes_, pwm_pin_values_, data, out, ret, last_call,
          top_before, inited, hist, streak, ndelay, last_set, wrapped,
          consumer, channels, probe, bench>>

halPins == <<analog_pin_values_, digital_pin_values_, digital_pin_modes_,
             pwm_pin_values_>>
alarmHistory == <<inited, hist, streak>>
sensorVars == <<channels, probe, bench>>

\* ------------------------------------------------------------- alarm.cpp
stack_full_off_by_one(s) == s.top = ALARM_NODES
stack_full(s) == s.top = (ALARM_NODES - 1)

stack_empty(s) == s.top = -1

\* Faulty variant: the lowest slot is taken for no alarm (top > 0 for top != -1).
stack_peek_above_zero(s) ==
    IF s.top > 0
    THEN [status |-> VC_STATUS_SUCCESS, idx |-> s.top]
    ELSE [status |-> VC_STATUS_FAILURE, idx |-> -1]

\* Returns the status and the index the returned pointer refers to.
stack_peek(s) ==
    IF ~stack_empty(s)
    THEN [status |-> VC_STATUS_SUCCESS, idx |-> s.top]
    ELSE [status |-> VC_STATUS_FAILURE, idx |-> -1]

stack_pop_unchecked(s) ==
    [status |-> VC_STATUS_SUCCESS, idx |-> s.top,
     stack |-> [s EXCEPT !.top = Int8(s.top - 1)]]
stack_pop(s) ==
    IF ~stack_empty(s)
    THEN [status |-> VC_STATUS_SUCCESS, idx |-> s.top,
          stack |-> [s EXCEPT !.top = Int8(s.top - 1)]]
    ELSE [status |-> VC_STATUS_FAILURE, idx |-> -1, stack |-> s]

\* A store to alarm[i] with i outside the array is left out of the model:
\* no reachable state makes one.
stack_push_bottom(s, a) ==
    IF ~stack_full(s)
    THEN [top |-> Int8(s.top + 1),
          alarm |-> [i \in DOMAIN s.alarm |->
                       IF i = 0 THEN a
                       ELSE IF i - 1 <= s.top THEN s.alarm[i - 1] ELSE s.alarm[i]]]
    ELSE s
stack_push(s, a) ==
    IF ~stack_full(s)
    THEN LET t == Int8(s.top + 1)
         IN  [top |-> t,
              alarm |-> [i \in DOMAIN s.alarm |-> IF i = t THEN a ELSE s.alarm[i]]]
    ELSE s

alarm_init_zero(s) == [s EXCEPT !.top = 0]
alarm_init(s) == [s EXCEPT !.top = -1]

\* now is what Hal.millis() returns during the call.
alarm_add_evict(s, alarmID, buf, now) ==
    LET a == [alarm |-> alarmID, timestamp |-> now,
              data |-> [idx \in DataIdx |-> buf[idx]]]
    IN  IF ~stack_full(s) THEN stack_push(s, a)
        ELSE [s EXCEPT !.alarm[s.top] = a]
alarm_add_late_stamp(s, alarmID, buf, now) ==
    LET a == [alarm |-> alarmID, timestamp |-> U32Add(now, U32One),
              data |-> [idx \in DataIdx |-> buf[idx]]]
    IN  IF ~stack_full(s) THEN stack_push(s, a) ELSE s
alarm_add(s, alarmID, buf, now) ==
    IF ~stack_full(s)
    THEN LET a == [alarm |-> alarmID, timestamp |-> now,
                   data |-> [idx \in DataIdx |-> buf[idx]]]
         IN  stack_push(s, a)
    ELSE s

alarm_available(s) == (stack_empty(s) = FALSE)

\* Faulty variant: every stored alarm is discarded, not only the top one.
alarm_remove_all(s) == [s EXCEPT !.top = -1]

alarm_remove(s) == stack_pop(s).stack

\* o is the caller's out-parameters before the call.
alarm_read_pop(s, o) ==
    LET p == stack_pop(s)
    IN  [status |-> p.status, stack |-> p.stack,
         out |-> IF p.status = VC_STATUS_SUCCESS THEN s.alarm[p.idx] ELSE o]
alarm_read_clobber(s, o) ==
    LET p == stack_peek(s)
    IN  [status |-> p.status, stack |-> s,
         out |-> IF p.status = VC_STATUS_SUCCESS THEN s.alarm[p.idx] ELSE s.alarm[0]]
alarm_read(s, o) ==
    LET p == stack_peek(s)
    IN  [status |-> p.status, stack |-> s,
         out |-> IF p.status = VC_STATUS_SUCCESS
                 THEN [alarm |-> s.alarm[p.idx].alarm,
                       timestamp |-> s.alarm[p.idx].timestamp,
                       data |-> [idx \in DataIdx |-> s.alarm[p.idx].data[idx]]]
                 ELSE o]

\* ------------------------------------------------------------- hal.h (TEST_MODE)
\* Enumerators in declaration order; without an initializer the first is 0,
\* the value the elements of a partly initialized array get.
PinModes == <<"HAL_INPUT", "HAL_OUTPUT", "HAL_INPUT_PULLUP">>
VoltageLevels == <<"HAL_HIGH", "HAL_LOW">>
AnalogPinIds == 0 .. 3
PWM_3 == 3

HalApi_millis(m) == m

HalApi_delay_off_by_one(m, ms) == U32Add(U32Add(m, ms), U32One)
HalApi_delay(m, ms) == U32Add(m, ms)

\* Faulty variant: pin 0 is read whatever the pin.
HalApi_analogRead_first(values, pin) == values[0]

HalApi_analogRead(values, pin) == values[pin]

\* Faulty variant: the value is stored for every analog pin.
HalApi_test_setAnalogPin_all(values, pin, value) == [p \in DOMAIN values |-> value]

HalApi_test_setAnalogPin(values, pin, value) == [values EXCEPT ![pin] = value]

HalApi_setDigitalPinMode(modes, pin, mode) == [modes EXCEPT ![pin] = mode]

\* threw: the call left by `throw "Can only write to an OUTPUT pin"`.
HalApi_digitalWrite_late_throw(modes, values, pin, value) ==
    [threw |-> modes[pin] # "HAL_OUTPUT", values |-> [values EXCEPT ![pin] = value]]
HalApi_digitalWrite(modes, values, pin, value) ==
    IF modes[pin] # "HAL_OUTPUT"
    THEN [threw |-> TRUE, values |-> values]
    ELSE [threw |-> FALSE, values |-> [values EXCEPT ![pin] = value]]

\* Faulty variant: the value is stored for pin 0 whatever the pin.
HalApi_analogWrite_first(values, pin, value) == [values EXCEPT ![0] = value]

HalApi_analogWrite(values, pin, value) == [values EXCEPT ![pin] = value]

\* ------------------------------------------------------------- float
\* The C type float (IEEE-754 binary32, round to nearest, ties to even) as
\* <<sign, mantissa, exponent>>: the value is (-1)^sign * mantissa * 2^exponent
\* with mantissa = 0 (zero, sign 0) or 2^23 <= mantissa < 2^24. The magnitudes
\* the sensor arithmetic meets (2^-40 to 2^10) are far from the subnormal and
\* the overflow range, so neither those nor NaN are represented.
F32Zero == <<0, 0, 0>>

\* The number of binary digits of n, for 0 <= n < 2^31.
RECURSIVE BitLen(_)
BitLen(n) ==
    IF n >= 16777216 THEN 24 + BitLen(n \div 16777216)
    ELSE IF n >= 4096 THEN 12 + BitLen(n \div 4096)
    ELSE IF n >= 64 THEN 6 + BitLen(n \div 64)
    ELSE IF n >= 8 THEN 3 + BitLen(n \div 8)
    ELSE IF n >= 4 THEN 3
    ELSE IF n >= 2 THEN 2
    ELSE n

\* The float nearest to (-1)^s * (n + f) * 2^e, where 0 < n < 2^31 and
\* 0 <= f < 1 with f > 0 exactly when sticky.
F32Round(s, n, e, sticky) ==
    LET k == BitLen(n) - 24
    IN  IF k <= 0
        THEN <<s, n * (2 ^ (0 - k)), e + k>>
        ELSE LET q == n \div (2 ^ k)
                 r == n % (2 ^ k)
                 half == 2 ^ (k - 1)
                 up == r > half \/ (r = half /\ (sticky \/ q % 2 = 1))
                 m == IF up THEN q + 1 ELSE q
             IN  IF m = 2 ^ 24 THEN <<s, 2 ^ 23, e + k + 1>> ELSE <<s, m, e + k>>

\* (float) n for an int n.
F32FromInt(n) ==
    IF n = 0 THEN F32Zero
    ELSE F32Round(IF n < 0 THEN 1 ELSE 0, IF n < 0 THEN 0 - n ELSE n, 0, FALSE)

F32Neg(a) == IF a[2] = 0 THEN a ELSE <<1 - a[1], a[2], a[3]>>

\* a * b: the 48-bit product of the mantissas is built from 12-bit halves.
F32Mul(a, b) ==
    IF a[2] = 0 \/ b[2] = 0 THEN F32Zero
    ELSE LET a1 == a[2] \div 4096
             a0 == a[2] % 4096
             b1 == b[2] \div 4096
             b0 == b[2] % 4096
             mid == a1 * b0 + a0 * b1
             low == a0 * b0 + (mid % 4096) * 4096
             lo == low % 16777216
             hi == a1 * b1 + (mid \div 4096) + (low \div 16777216)
         IN  F32Round((a[1] + b[1]) % 2, hi * 64 + (lo \div 262144),
                      a[3] + b[3] + 18, lo % 262144 # 0)

\* The quotient and remainder of (q * d + r) * 2^k by d, for 0 <= r < d < 2^24
\* and q < 2, by long division, six binary digits at a time.
RECURSIVE LongDiv(_, _, _, _)
LongDiv(q, r, d, k) ==
    IF k = 0 THEN <<q, r>>
    ELSE LET b == IF k >= 6 THEN 6 ELSE k
             n == r * (2 ^ b)
         IN  LongDiv(q * (2 ^ b) + (n \div d), n % d, d, k - b)

\* a / b for b other than zero.
F32Div(a, b) ==
    IF a[2] = 0 THEN F32Zero
    ELSE LET qr == LongDiv(a[2] \div b[2], a[2] % b[2], b[2], 26)
         IN  F32Round((a[1] + b[1]) % 2, qr[1], a[3] - b[3] - 26, qr[2] # 0)

\* a + b: the operand of greater exponent gets six more low bits and the
\* other is aligned to it, a sticky bit standing for what falls below.
F32Add(a, b) ==
    IF a[2] = 0 THEN b
    ELSE IF b[2] = 0 THEN a
    ELSE LET big == IF a[3] >= b[3] THEN a ELSE b
             small == IF a[3] >= b[3] THEN b ELSE a
             d == big[3] - small[3]
             bs == IF big[1] = 0 THEN 1 ELSE -1
             ss == IF small[1] = 0 THEN 1 ELSE -1
         IN  IF d <= 6
             THEN LET n == bs * big[2] * (2 ^ d) + ss * small[2]
                  IN  IF n = 0 THEN F32Zero
                      ELSE F32Round(IF n < 0 THEN 1 ELSE 0,
                                    IF n < 0 THEN 0 - n ELSE n, small[3], FALSE)
             ELSE LET sh == IF d - 6 > 25 THEN 25 ELSE d - 6
                      q == small[2] \div (2 ^ sh)
                      sticky == small[2] % (2 ^ sh) # 0
                      mag == IF bs = ss THEN big[2] * 64 + q
                             ELSE IF sticky THEN big[2] * 64 - q - 1
                             ELSE big[2] * 64 - q
                  IN  F32Round(big[1], mag, big[3] - 6, sticky)

F32Sub(a, b) == F32Add(a, F32Neg(b))

F32Abs(a) == <<0, a[2], a[3]>>

\* a <= b for two floats that are not negative.
F32LeqPos(a, b) ==
    IF a[2] = 0 THEN TRUE
    ELSE IF b[2] = 0 THEN FALSE
    ELSE a[3] < b[3] \/ (a[3] = b[3] /\ a[2] <= b[2])

\* ------------------------------------------------------------- sensors
\* A decimal literal num/den written with the f suffix: the float nearest to it.
F32Lit(num, den) == F32Div(F32FromInt(num), F32FromInt(den))

COMPARISON_TOLERANCE == F32Lit(5, 1000)

\* The literals 5, 0.2f and 0.5f of the equations.
F32Five == F32FromInt(5)
F32PointTwo == F32Lit(2, 10)
F32PointFive == F32Lit(5, 10)

\* A float* argument: NULL, or a pointer to the floats at[1], at[2], ...
NullBuffer == [null |-> TRUE, at |-> <<>>]
Buffer(floats) == [null |-> FALSE, at |-> floats]

\* Faulty variant: the offset of the MPXV7002 equation, 0.5f, is used.
MPXV5004_TransferFn_offset(pressureIn, voltageOut, count) ==
    IF pressureIn.null \/ voltageOut.null
    THEN [threw |-> TRUE, voltageOut |-> voltageOut]
    ELSE [threw |-> FALSE,
          voltageOut |-> Buffer([i \in DOMAIN voltageOut.at |->
              IF i <= count
              THEN F32Mul(F32Five,
                          F32Add(F32Mul(F32PointTwo, pressureIn.at[i]), F32PointFive))
              ELSE voltageOut.at[i]])]

\* voltageOut[i] = 5 * (0.2f * pressureIn[i] + 0.2f) for the first count floats.
MPXV5004_TransferFn(pressureIn, voltageOut, count) ==
    IF pressureIn.null \/ voltageOut.null
    THEN [threw |-> TRUE, voltageOut |-> voltageOut]
    ELSE [threw |-> FALSE,
          voltageOut |-> Buffer([i \in DOMAIN voltageOut.at |->
              IF i <= count
              THEN F32Mul(F32Five,
                          F32Add(F32Mul(F32PointTwo, pressureIn.at[i]), F32PointTwo))
              ELSE voltageOut.at[i]])]

\* voltageOut[i] = 5 * (0.2f * pressureIn[i] + 0.5f) for the first count floats.
MPXV7002_TransferFn(pressureIn, voltageOut, count) ==
    IF pressureIn.null \/ voltageOut.null
    THEN [threw |-> TRUE, voltageOut |-> voltageOut]
    ELSE [threw |-> FALSE,
          voltageOut |-> Buffer([i \in DOMAIN voltageOut.at |->
              IF i <= count
              THEN F32Mul(F32Five,
                          F32Add(F32Mul(F32PointTwo, pressureIn.at[i]), F32PointFive))
              ELSE voltageOut.at[i]])]

\* The sensor module is known here by its interface and its description only:
\* what follows is the pipeline as described, in float arithmetic throughout.
\* The intercept of each sensor's voltage-from-pressure equation.
Intercept == [MPXV5004 |-> F32PointTwo, MPXV7002 |-> F32PointFive]

\* pressure = (voltage / 5 - intercept) / 0.2
InvertTransferFn(voltage, intercept) ==
    F32Div(F32Sub(F32Div(voltage, F32Five), intercept), F32PointTwo)

\* The two differential channels: their analog pins, their sensor and the
\* number of samples they average.
Channels == {"INHALATION_PIN", "EXHALATION_PIN"}
ChannelPin == [INHALATION_PIN |-> 0, EXHALATION_PIN |-> 1]
ChannelSensor == [INHALATION_PIN |-> "MPXV7002", EXHALATION_PIN |-> "MPXV7002"]
AverageCount == [INHALATION_PIN |-> 4, EXHALATION_PIN |-> 4]

\* ADC counts to volts: a 10-bit converter with a 5 V reference.
AdcFullScale == 1023
F32AdcFullScale == F32FromInt(AdcFullScale)
SampleVoltage(counts) ==
    F32Div(F32Mul(F32FromInt(counts), F32Five), F32AdcFullScale)

\* The arithmetic mean of the first n floats of ring, summed in index order.
RECURSIVE RingSum(_, _)
RingSum(ring, n) == IF n = 0 THEN F32Zero ELSE F32Add(RingSum(ring, n - 1), ring[n])
RingMean(ring) == F32Div(RingSum(ring, Len(ring)), F32FromInt(Len(ring)))

\* A channel before sensors_init (static storage).
ZeroChannel(id) ==
    [ring |-> [i \in 1 .. AverageCount[id] |-> F32Zero], pos |-> 1, zero |-> F32Zero]

\* sensors_init: every channel samples its pin once, keeps the voltage as its
\* zero-pressure baseline and seeds its whole ring buffer with it.
sensors_init(chs, pins) ==
    [id \in Channels |->
        LET v == SampleVoltage(HalApi_analogRead(pins, ChannelPin[id]))
        IN  [ring |-> [i \in 1 .. AverageCount[id] |-> v], pos |-> 1, zero |-> v]]

\* get_pressure_reading: sample, push into the ring, average, invert the
\* transfer function, subtract the pressure of the baseline.
get_pressure_reading(chs, pins, id) ==
    LET c == chs[id]
        v == SampleVoltage(HalApi_analogRead(pins, ChannelPin[id]))
        ring == [c.ring EXCEPT ![c.pos] = v]
        icpt == Intercept[ChannelSensor[id]]
    IN  [chs |-> [chs EXCEPT ![id] =
                    [ring |-> ring, pos |-> (c.pos % AverageCount[id]) + 1,
                     zero |-> c.zero]],
         value |-> F32Sub(InvertTransferFn(RingMean(ring), icpt),
                          InvertTransferFn(c.zero, icpt))]

\* ------------------------------------------------------------- the consumer
\* A consumer of the store (external to alarm.cpp) drains it with the loop
\*     while (alarm_available()) { alarm_read(...); alarm_remove(); }
\* pc is the call it makes next ("idle": it is not draining), n and snap the
\* number of alarms and the records the store held when the loop began, log
\* the records its reads returned and removes the alarm_remove calls it made.
Idle == [pc |-> "idle", n |-> 0, snap |-> <<>>, log |-> <<>>, removes |-> 0]

ConsumerAfter(c, r, call, o) ==
    IF c.pc = "check" /\ call[1] = "alarm_available"
    THEN [c EXCEPT !.pc = IF r[2] THEN "read" ELSE "done"]
    ELSE IF c.pc = "read" /\ call[1] = "alarm_read"
    THEN [c EXCEPT !.pc = "remove",
                   !.log = Append(c.log, IF r[2] = VC_STATUS_SUCCESS THEN o ELSE NoOut)]
    ELSE IF c.pc = "remove" /\ call[1] = "alarm_remove"
    THEN [c EXCEPT !.pc = "check", !.removes = c.removes + 1]
    ELSE c

\* ------------------------------------------------------------- the tests
\* What a test keeps of the sensor module's calls: whether sensors_init was
\* called, per channel the ADC counts its pin held at each sample it took
\* since (the one of sensors_init first) and the last pressure it returned.
NoReading == [read |-> FALSE, value |-> F32Zero]
NoProbe ==
    [inited |-> FALSE, fed |-> [id \in Channels |-> <<>>],
     reading |-> [id \in Channels |-> NoReading]]

\* A transfer-function test: the sensor, the two buffers and the count of its
\* last call, whether the call threw, and the pressure the inverse equation
\* gave back for the first voltage (back.read: it was computed).
EmptyBench ==
    [sensor |-> "none", pressureIn |-> NullBuffer, voltageOut |-> NullBuffer,
     count |-> 0, threw |-> FALSE, back |-> NoReading]

\* ------------------------------------------------------------- initial state
\* Static storage: the alarm stack is zero-initialized (top = 0) until
\* alarm_init runs; the HAL's members have their in-class initializers.
Init ==
    /\ stack = [top |-> 0, alarm |-> [i \in 0 .. (ALARM_NODES - 1) |-> ZeroAlarm]]
    /\ millis_ = U32Zero
    /\ analog_pin_values_ = [p \in 0 .. (NumAnalogPins - 1) |-> 0]
    /\ digital_pin_values_ =
           [p \in 0 .. (NumDigitalPins - 1) |->
              IF p = 0 THEN "HAL_LOW" ELSE VoltageLevels[1]]
    /\ digital_pin_modes_ =
           [p \in 0 .. (NumDigitalPins - 1) |->
              IF p = 0 THEN "HAL_INPUT" ELSE PinModes[1]]
    /\ pwm_pin_values_ = [p \in 0 .. (NumDigitalPins - 1) |-> 0]
    /\ data = BufferA
    /\ out = NoOut
    /\ ret = <<"void">>
    /\ last_call = <<"boot">>
    /\ top_before = 0
    /\ inited = FALSE
    /\ hist = <<>>
    /\ streak = -1
    /\ ndelay = 0
    /\ last_set = [p \in 0 .. (NumAnalogPins - 1) |-> 0]
    /\ wrapped = FALSE
    /\ consumer = Idle
    /\ channels = [id \in Channels |-> ZeroChannel(id)]
    /\ probe = NoProbe
    /\ bench = EmptyBench

\* ------------------------------------------------------------- calls
\* The record an alarm_add call is asked to store.
Requested(alarmID) ==
    [alarm |-> alarmID, timestamp |-> millis_,
     data |-> [idx \in DataIdx |-> data[idx]]]

\* The sum of two uint32_t values as a number: the high half is not reduced,
\* so a sum of 2^32 or more differs from every uint32_t value.
ExactSum(a, b) ==
    <<a[1] + b[1] + ((a[2] + b[2]) \div Half), (a[2] + b[2]) % Half>>

\* What a call adds to the histories that follow the calls' arguments and
\* results: the value last set on each analog pin, whether the delays have
\* added up to 2^32 ms, and the position of the consumer's drain loop.
Observed(r, call, o) ==
    /\ last_set' = IF call[1] = "test_setAnalogPin"
                   THEN [last_set EXCEPT ![call[2]] = call[3]]
                   ELSE last_set
    /\ wrapped' = (wrapped \/ (call[1] = "delay"
                                /\ ExactSum(millis_, call[2])[1] >= Half))
    /\ consumer' = ConsumerAfter(consumer, r, call, o)

\* What the caller holds after a call that is no alarm_read.
Called(r, call) ==
    /\ ret' = r /\ last_call' = call /\ out' = NoOut /\ top_before' = stack.top
    /\ Observed(r, call, NoOut)

\* The same for a call that is none of the sensor module's or of its tests'.
Returns(r, call) == Called(r, call) /\ UNCHANGED sensorVars

AlarmInit ==
    /\ stack' = alarm_init(stack)
    /\ inited' = TRUE
    /\ hist' = <<>>
    /\ streak' = 0
    /\ Returns(<<"void">>, <<"alarm_init">>)
    /\ UNCHANGED <<millis_, halPins, data, ndelay>>

AlarmAdd(alarmID) ==
    /\ stack' = alarm_add(stack, alarmID, data, HalApi_millis(millis_))
    /\ hist' = IF inited /\ Len(hist) < ALARM_NODES
               THEN Append(hist, Requested(alarmID))
               ELSE hist
    /\ streak' = IF streak >= 0 /\ streak < ALARM_NODES THEN streak + 1 ELSE -1
    /\ Returns(<<"void">>, <<"alarm_add", alarmID>>)
    /\ UNCHANGED <<millis_, halPins, data, inited, ndelay>>

AlarmAvailable ==
    /\ Returns(<<"bool", alarm_available(stack)>>, <<"alarm_available">>)
    /\ UNCHANGED <<stack, millis_, halPins, data, alarmHistory, ndelay>>

AlarmRemove ==
    /\ stack' = alarm_remove(stack)
    /\ hist' = IF hist # <<>> THEN SubSeq(hist, 1, Len(hist) - 1) ELSE hist
    /\ streak' = -1
    /\ Returns(<<"void">>, <<"alarm_remove">>)
    /\ UNCHANGED <<millis_, halPins, data, inited, ndelay>>

\* before: the caller's out-parameters when the call is made; a second read in
\* a row reuses the variables of the first.
AlarmRead(before) ==
    /\ IF last_call[1] = "alarm_read" THEN before = out ELSE before \in OutBefore
    /\ LET r == alarm_read(stack, before)
       IN  /\ stack' = r.stack
           /\ out' = r.out
           /\ ret' = <<"status", r.status>>
           /\ last_call' = <<"alarm_read", before>>
           /\ top_before' = stack.top
           /\ Observed(<<"status", r.status>>, <<"alarm_read", before>>, r.out)
    /\ UNCHANGED <<millis_, halPins, data, alarmHistory, ndelay, sensorVars>>

\* The caller overwrites its payload buffer.
WriteBuffer(b) ==
    /\ b # data
    /\ data' = b
    /\ Returns(<<"void">>, <<"write_buffer">>)
    /\ UNCHANGED <<stack, millis_, halPins, alarmHistory, ndelay>>

Millis ==
    /\ Returns(<<"uint32", HalApi_millis(millis_)>>, <<"millis">>)
    /\ UNCHANGED <<stack, millis_, halPins, data, alarmHistory, ndelay>>

Delay(ms) ==
    /\ ndelay < MaxDelays
    /\ millis_' = HalApi_delay(millis_, ms)
    /\ ndelay' = ndelay + 1
    /\ Returns(<<"void">>, <<"delay", ms>>)
    /\ UNCHANGED <<stack, halPins, data, alarmHistory>>

AnalogRead(pin) ==
    /\ Returns(<<"int", HalApi_analogRead(analog_pin_values_, pin)>>,
               <<"analogRead", pin>>)
    /\ UNCHANGED <<stack, millis_, halPins, data, alarmHistory, ndelay>>

TestSetAnalogPin(pin, value) ==
    /\ analog_pin_values_' = HalApi_test_setAnalogPin(analog_pin_values_, pin, value)
    /\ Returns(<<"void">>, <<"test_setAnalogPin", pin, value>>)
    /\ UNCHANGED <<stack, millis_, digital_pin_values_, digital_pin_modes_,
                   pwm_pin_values_, data, alarmHistory, ndelay>>

AnalogWrite(pin, value) ==
    /\ pwm_pin_values_' = HalApi_analogWrite(pwm_pin_values_, pin, value)
    /\ Returns(<<"void">>, <<"analogWrite", pin, value>>)
    /\ UNCHANGED <<stack, millis_, analog_pin_values_, digital_pin_values_,
                   digital_pin_modes_, data, alarmHistory, ndelay>>

SetDigitalPinMode(pin, mode) ==
    /\ digital_pin_modes_' = HalApi_setDigitalPinMode(digital_pin_modes_, pin, mode)
    /\ Returns(<<"void">>, <<"setDigitalPinMode", pin, mode>>)
    /\ UNCHANGED <<stack, millis_, analog_pin_values_, digital_pin_values_,
                   pwm_pin_values_, data, alarmHistory, ndelay>>

DigitalWrite(pin, value) ==
    LET w == HalApi_digitalWrite(digital_pin_modes_, digital_pin_values_, pin, value)
    IN  /\ digital_pin_values_' = w.values
        /\ Returns(IF w.threw THEN <<"throw", "Can only write to an OUTPUT pin">>
                              ELSE <<"void">>,
                   <<"digitalWrite", pin, value>>)
        /\ UNCHANGED <<stack, millis_, analog_pin_values_, digital_pin_modes_,
                       pwm_pin_values_, data, alarmHistory, ndelay>>

\* ------------------------------------------------------------- specifications
\* Inputs of the HAL calls.
DigitalPins == {0, 3, 13}
AnalogValues == {0, 1023}
PwmValues == {0, 255}
TestAnalogPins == {p \in AnalogPinIds : p \in {0, 3}}
AllPinModes == {PinModes[i] : i \in 1 .. 3}
AllLevels == {VoltageLevels[i] : i \in 1 .. 2}

\* The alarm module with its clock: every alarm call, every cause and buffer.
NextAlarm ==
    \/ AlarmInit
    \/ \E alarmID \in Causes : AlarmAdd(alarmID)
    \/ AlarmAvailable
    \/ AlarmRemove
    \/ \E before \in OutBefore \cup {out} : AlarmRead(before)
    \/ \E b \in Buffers : WriteBuffer(b)
    \/ \E ms \in ShortDelays : ndelay < MaxAlarmDelays /\ Delay(ms)

SpecAlarm == Init /\ [][NextAlarm]_vars

\* The HAL alone: every call, two analog pins and three digital pins (one of
\* them the PWM pin).
NextHal ==
    \/ Millis
    \/ \E ms \in Delays : Delay(ms)
    \/ \E pin \in TestAnalogPins : AnalogRead(pin)
    \/ \E pin \in TestAnalogPins, value \in AnalogValues : TestSetAnalogPin(pin, value)
    \/ \E value \in PwmValues : AnalogWrite(PWM_3, value)
    \/ \E pin \in DigitalPins, mode \in AllPinModes : SetDigitalPinMode(pin, mode)
    \/ \E pin \in DigitalPins, value \in AllLevels : DigitalWrite(pin, value)

SpecHal == Init /\ [][NextHal]_vars

\* Alarm and HAL calls interleaved, one pin of each kind and one cause.
Next ==
    \/ AlarmInit
    \/ \E alarmID \in OneCause : AlarmAdd(alarmID)
    \/ AlarmAvailable
    \/ AlarmRemove
    \/ \E before \in {Garbage} \cup {out} : AlarmRead(before)
    \/ Millis
    \/ \E ms \in Delays : Delay(ms)
    \/ AnalogRead(0)
    \/ TestSetAnalogPin(0, 1023)
    \/ AnalogWrite(PWM_3, 255)
    \/ SetDigitalPinMode(13, "HAL_OUTPUT")
    \/ DigitalWrite(13, "HAL_LOW")

Spec == Init /\ [][Next]_vars

\* The consumer starts its drain loop on an initialized store: it notes what
\* the store holds and goes on to call alarm_available.
StartDrain ==
    /\ inited
    /\ consumer.pc = "idle"
    /\ consumer' = [pc |-> "check", n |-> stack.top + 1,
                    snap |-> [i \in 1 .. (stack.top + 1) |-> stack.alarm[i - 1]],
                    log |-> <<>>, removes |-> 0]
    /\ UNCHANGED <<stack, millis_, halPins, data, out, ret, last_call, top_before,
                   alarmHistory, ndelay, last_set, wrapped, sensorVars>>

\* The calls of the loop, each made where the loop stands.
DrainCheck == consumer.pc = "check" /\ AlarmAvailable
DrainRead == consumer.pc = "read" /\ \E before \in {Garbage} \cup {out} : AlarmRead(before)
DrainRemove == consumer.pc = "remove" /\ AlarmRemove
DrainStep == DrainCheck \/ DrainRead \/ DrainRemove

\* The loop has ended; the consumer goes back to its other work.
EndDrain ==
    /\ consumer.pc = "done"
    /\ consumer' = Idle
    /\ UNCHANGED <<stack, millis_, halPins, data, out, ret, last_call, top_before,
                   alarmHistory, ndelay, last_set, wrapped, sensorVars>>

\* A producer fills the store while the consumer is idle; once the consumer
\* has begun to drain, no alarm_add is made until its loop has ended. The loop
\* is sequential code that keeps running: its next call is always made.
NextDrain ==
    \/ consumer.pc = "idle" /\ AlarmInit
    \/ \E alarmID \in Causes : consumer.pc = "idle" /\ AlarmAdd(alarmID)
    \/ \E ms \in ShortDelays :
          consumer.pc = "idle" /\ ndelay < MaxAlarmDelays /\ Delay(ms)
    \/ consumer.pc = "idle" /\ AlarmRemove
    \/ StartDrain
    \/ DrainCheck
    \/ DrainRead
    \/ DrainRemove
    \/ EndDrain

SpecDrain == Init /\ [][NextDrain]_vars /\ WF_vars(DrainStep)

\* Everything but the sensor module's state and its tests' is left alone.
RestUnchanged ==
    UNCHANGED <<stack, millis_, halPins, data, out, ret, last_call, top_before,
                alarmHistory, ndelay, last_set, wrapped, consumer>>

\* A test calls sensors_init; it samples every channel's pin.
SensorsInit ==
    /\ channels' = sensors_init(channels, analog_pin_values_)
    /\ probe' = [inited |-> TRUE,
                 fed |-> [id \in Channels |-> <<last_set[ChannelPin[id]]>>],
                 reading |-> [id \in Channels |-> NoReading]]
    /\ Called(<<"void">>, <<"sensors_init">>)
    /\ UNCHANGED <<stack, millis_, halPins, data, alarmHistory, ndelay, bench>>

\* A test reads a channel after sensors_init, at most MaxTicks times; the
\* simulated signal of the channel's pin supplies its next value, counts, for
\* the sample the reading takes.
GetPressureReading(id, counts) ==
    /\ probe.inited
    /\ Len(probe.fed[id]) <= MaxTicks
    /\ LET pins == HalApi_test_setAnalogPin(analog_pin_values_, ChannelPin[id], counts)
           r == get_pressure_reading(channels, pins, id)
       IN  /\ analog_pin_values_' = pins
           /\ channels' = r.chs
           /\ probe' = [probe EXCEPT
                          !.fed[id] = Append(@, counts),
                          !.reading[id] = [read |-> TRUE, value |-> r.value]]
           /\ ret' = <<"float", r.value>>
           /\ last_call' = <<"get_pressure_reading", id, counts>>
           /\ out' = NoOut
           /\ top_before' = stack.top
           /\ Observed(<<"void">>, <<"test_setAnalogPin", ChannelPin[id], counts>>, NoOut)
    /\ UNCHANGED <<stack, millis_, digital_pin_values_, digital_pin_modes_,
                   pwm_pin_values_, data, alarmHistory, ndelay, bench>>

\* The ADC counts the tests put on the channels' pins: about 2.5 V (the
\* MPXV7002 at 0 kPa) and about 3 V.
SensorCounts == {512, 614}

\* The two differential channels, each fed and read on its own; the pins are
\* set before sensors_init calibrates on them.
NextSensor ==
    \/ \E id \in Channels, value \in SensorCounts :
          /\ ~probe.inited
          /\ analog_pin_values_[ChannelPin[id]] # value
          /\ TestSetAnalogPin(ChannelPin[id], value)
    \/ SensorsInit
    \/ \E id \in Channels, counts \in SensorCounts : GetPressureReading(id, counts)

SpecSensor == Init /\ [][NextSensor]_vars

\* A test's call of a transfer function on buffers of one float, the one
\* call the test makes.
TransferFn(sensor, pressureIn, voltageOut, count) ==
    LET r == IF sensor = "MPXV5004"
             THEN MPXV5004_TransferFn(pressureIn, voltageOut, count)
             ELSE MPXV7002_TransferFn(pressureIn, voltageOut, count)
    IN  /\ bench.sensor = "none"
        /\ bench' = [sensor |-> sensor, pressureIn |-> pressureIn,
                     voltageOut |-> r.voltageOut, count |-> count,
                     threw |-> r.threw, back |-> NoReading]
        /\ UNCHANGED <<channels, probe>>
        /\ RestUnchanged

\* The sensor module's inverse equation applied to the voltage of the call.
InvertVoltage ==
    /\ bench.sensor # "none" /\ ~bench.threw /\ bench.count = 1 /\ ~bench.back.read
    /\ bench' = [bench EXCEPT !.back =
                    [read |-> TRUE,
                     value |-> InvertTransferFn(bench.voltageOut.at[1],
                                                Intercept[bench.sensor])]]
    /\ UNCHANGED <<channels, probe>>
    /\ RestUnchanged

\* Pressures of each sensor's range, PressureSteps to the kPa: 0 to 3.92 kPa
\* for the MPXV5004, -2 to 2 kPa for the MPXV7002.
Pressures ==
    [MPXV5004 |-> {F32Lit(k, PressureSteps) : k \in 0 .. ((392 * PressureSteps) \div 100)},
     MPXV7002 |-> {F32Lit(k, PressureSteps) : k \in (0 - 2 * PressureSteps) .. (2 * PressureSteps)}]

NextTransfer ==
    \/ \E sensor \in {"MPXV5004", "MPXV7002"} :
          \E p \in Pressures[sensor], count \in {0, 1} :
             TransferFn(sensor, Buffer(<<p>>), Buffer(<<F32Zero>>), count)
    \/ \E sensor \in {"MPXV5004", "MPXV7002"} :
          \E bufs \in {<<NullBuffer, Buffer(<<F32Zero>>)>>, <<Buffer(<<F32Zero>>), NullBuffer>>} :
             TransferFn(sensor, bufs[1], bufs[2], 1)
    \/ InvertVoltage

SpecTransfer == Init /\ [][NextTransfer]_vars

\* ------------------------------------------------------------- properties
\* The last call was an alarm_add of a record that is not on top of a full
\* stack afterwards: the add was dropped.
DroppedAdd ==
    /\ last_call[1] = "alarm_add"
    /\ top_before = ALARM_NODES - 1
    /\ stack.top = ALARM_NODES - 1
    /\ stack.alarm[stack.top] # Requested(last_call[2])

\* C1: whatever alarm calls are made, after alarm_init (and before it too) the
\* top-of-stack index stays within -1 .. ALARM_NODES-1, so the number of
\* stored alarms (top + 1) stays within 0 .. ALARM_NODES.
TopInRange ==
    /\ stack.top >= -1
    /\ stack.top <= ALARM_NODES - 1
    /\ stack.top + 1 \in 0 .. ALARM_NODES

\* C1 witness: an alarm_add on a full, initialized store has just been dropped.
TopInRangeAtFull == inited /\ DroppedAdd

\* C2: an alarm_add on a store that holds ALARM_NODES alarms changes neither
\* the size nor any stored record; alarm_available stays true and alarm_read
\* answers as it did before the add.
FullAddIsDropped ==
    [][(stack.top = ALARM_NODES - 1 /\ last_call'[1] = "alarm_add")
       => /\ stack'.top = stack.top
          /\ stack'.alarm = stack.alarm
          /\ alarm_available(stack')
          /\ alarm_read(stack', Garbage).status = VC_STATUS_SUCCESS
          /\ alarm_read(stack', Garbage).out = stack.alarm[stack.top]]_vars

\* C2 witness: a dropped add on a full store whose oldest and newest alarms
\* are still the two recorded first and last.
FullAddDroppedKeepsOldest ==
    /\ inited /\ DroppedAdd
    /\ Len(hist) = ALARM_NODES
    /\ stack.alarm[0] = hist[1]
    /\ stack.alarm[0] # stack.alarm[stack.top]

\* C3: the store is last-in-first-out: after alarm_init the array below top
\* holds, bottom to top, the alarms recorded and not yet removed in the order
\* of their adds, and a successful alarm_read yields the last of them.
LifoOrder ==
    inited =>
        /\ stack.top = Len(hist) - 1
        /\ \A i \in 1 .. Len(hist) : stack.alarm[i - 1] = hist[i]
        /\ (last_call[1] = "alarm_read" /\ hist # <<>>)
               => /\ ret = <<"status", VC_STATUS_SUCCESS>>
                  /\ out.alarm = hist[Len(hist)].alarm

\* C3 witness: a read that yields the older alarm after the newer one, of
\* another cause, was removed (its record is still in the slot above top).
LifoSecondRead ==
    /\ inited
    /\ last_call[1] = "alarm_read"
    /\ Len(hist) = 1 /\ stack.top = 0
    /\ out = hist[1]
    /\ stack.alarm[1].alarm \notin {0, out.alarm}

\* C4: alarm_read on an empty store returns VC_STATUS_FAILURE, leaves the
\* caller's alarmID, timestamp and data as they were, and leaves the store
\* empty; on a non-empty store it returns VC_STATUS_SUCCESS.
ReadOnEmptyFails ==
    [][last_call'[1] = "alarm_read"
       => IF stack.top = -1
          THEN /\ ret' = <<"status", VC_STATUS_FAILURE>>
               /\ out' = last_call'[2]
               /\ stack' = stack
          ELSE ret' = <<"status", VC_STATUS_SUCCESS>>]_vars

\* C4 witness: a failed read on a store emptied after use (slot 0 still holds
\* a record) that left the caller's variables untouched.
ReadFailedOnEmptied ==
    /\ last_call = <<"alarm_read", Garbage>>
    /\ ret = <<"status", VC_STATUS_FAILURE>>
    /\ out = Garbage
    /\ stack.top = -1
    /\ stack.alarm[0] # ZeroAlarm

\* C5: alarm_remove on an empty store changes nothing and raises no error,
\* and an alarm_add right after it stores its alarm in slot 0; on a non-empty
\* store alarm_remove lowers the size by exactly one.
RemoveEffect ==
    [][/\ last_call'[1] = "alarm_remove"
          => /\ ret' = <<"void">>
             /\ IF stack.top = -1
                THEN stack' = stack
                ELSE stack'.top = stack.top - 1
       /\ (last_call[1] = "alarm_remove" /\ top_before = -1
             /\ last_call'[1] = "alarm_add")
          => /\ stack'.top = 0
             /\ stack'.alarm[0] = Requested(last_call'[2])]_vars

\* C5 witness: an alarm_remove was just made on an empty, initialized store.
RemoveOnEmpty ==
    /\ inited
    /\ last_call[1] = "alarm_remove"
    /\ top_before = -1
    /\ stack.top = -1

\* C6: alarm_read and alarm_available leave the size and the stored records
\* unchanged, and a second alarm_read right after a first returns the same
\* status, cause, timestamp and payload.
ReadsDoNotModify ==
    [][/\ last_call'[1] \in {"alarm_read", "alarm_available"} => stack' = stack
       /\ (last_call[1] = "alarm_read" /\ last_call'[1] = "alarm_read")
          => (ret' = ret /\ out' = out)]_vars

\* C6 witness: a successful read made right after another read (its
\* out-parameters already held the top record when it was called).
SecondReadInARow ==
    /\ last_call[1] = "alarm_read"
    /\ stack.top >= 0
    /\ stack.alarm[stack.top].alarm # 0
    /\ last_call[2] = stack.alarm[stack.top]
    /\ out = last_call[2]
    /\ ret = <<"status", VC_STATUS_SUCCESS>>

\* C7: an alarm_add on a non-full store puts on top the record made of its
\* cause, of Hal.millis() at the call and of the first ALARM_DATALEN bytes of
\* its payload; the store does not change when the clock advances or the
\* caller rewrites its buffer; alarm_read returns the record as it was added.
RecordRoundTrip ==
    /\ [](inited /\ last_call[1] = "alarm_read" /\ hist # <<>>
            => /\ ret = <<"status", VC_STATUS_SUCCESS>>
               /\ out = hist[Len(hist)])
    /\ [][/\ (last_call'[1] = "alarm_add" /\ stack.top # ALARM_NODES - 1)
             => stack'.alarm[stack'.top] = Requested(last_call'[2])
          /\ last_call'[1] \in {"delay", "write_buffer"} => stack' = stack]_vars

\* C7 witness: a read returns the record as added although the clock has
\* advanced and the caller's buffer has been rewritten since the add.
RoundTripAfterChanges ==
    /\ inited
    /\ last_call[1] = "alarm_read"
    /\ hist # <<>>
    /\ out = hist[Len(hist)]
    /\ out.timestamp # millis_
    /\ out.data # [idx \in DataIdx |-> data[idx]]

\* C8: alarm_init empties the store whatever it held: right after it
\* alarm_available is false and alarm_read fails, and each of the next
\* ALARM_NODES alarm_add calls is recorded.
InitEmpties ==
    /\ [][last_call'[1] = "alarm_init"
            => /\ stack'.top = -1
               /\ ~alarm_available(stack')
               /\ alarm_read(stack', Garbage).status = VC_STATUS_FAILURE
               /\ alarm_read(stack', Garbage).out = Garbage]_vars
    /\ [](streak \in 0 .. ALARM_NODES
            => /\ stack.top = streak - 1
               /\ (streak >= 1 /\ last_call[1] = "alarm_add")
                     => stack.alarm[stack.top] = Requested(last_call[2]))

\* C8 witness: alarm_init was just called on a full store.
InitOnFull ==
    /\ last_call[1] = "alarm_init"
    /\ top_before = ALARM_NODES - 1
    /\ stack.top = -1
    /\ streak = 0

\* C9 as stated: the clock starts at 0, only delay changes what millis()
\* returns, and delay(ms) makes it exactly ms greater.
ClockAdvancesByExactlyMs ==
    /\ millis_ = U32Zero
    /\ [][/\ last_call'[1] # "delay" => millis_' = millis_
          /\ last_call'[1] = "millis" => ret' = <<"uint32", millis_>>
          /\ last_call'[1] = "delay"
                => millis_' = ExactSum(millis_, last_call'[2])]_vars

\* C9, amended: the clock starts at 0, no call but delay changes what
\* millis() returns (alarm and pin calls included), and delay(ms) advances it
\* by ms modulo 2^32.
ClockFrozenExceptDelay ==
    /\ millis_ = U32Zero
    /\ [][/\ last_call'[1] # "delay" => millis_' = millis_
          /\ last_call'[1] = "millis" => ret' = <<"uint32", millis_>>
          /\ last_call'[1] = "delay"
                => /\ millis_'[1] \in 0 .. (Half - 1)
                   /\ millis_'[2] \in 0 .. (Half - 1)
                   /\ \E carry \in {0, 1} :
                         ExactSum(millis_, last_call'[2])
                             = <<millis_'[1] + carry * Half, millis_'[2]>>]_vars

\* C9 witness: millis() returns 1, the value one delay(1) left, after an
\* alarm was added at that time and analog, PWM and digital pins were written.
ClockKeptAcrossCalls ==
    /\ last_call[1] = "millis"
    /\ ret = <<"uint32", <<0, 1>>>>
    /\ ndelay = 1
    /\ hist # <<>> /\ hist[Len(hist)].timestamp = <<0, 1>>
    /\ analog_pin_values_[0] = 1023
    /\ pwm_pin_values_[PWM_3] = 255
    /\ digital_pin_values_[13] = "HAL_LOW"

\* C10: every pin starts in INPUT mode; digitalWrite stores the level when
\* the pin's mode is OUTPUT, and otherwise fails and leaves every pin's level
\* and mode as they were.
DigitalWriteNeedsOutput ==
    /\ \A p \in DOMAIN digital_pin_modes_ : digital_pin_modes_[p] = "HAL_INPUT"
    /\ [][last_call'[1] = "digitalWrite"
            => IF digital_pin_modes_[last_call'[2]] = "HAL_OUTPUT"
               THEN /\ ret' = <<"void">>
                    /\ digital_pin_values_' =
                          [digital_pin_values_ EXCEPT ![last_call'[2]] = last_call'[3]]
                    /\ digital_pin_modes_' = digital_pin_modes_
               ELSE /\ ret'[1] = "throw"
                    /\ digital_pin_values_' = digital_pin_values_
                    /\ digital_pin_modes_' = digital_pin_modes_]_vars

\* C10 witness: a digitalWrite of the other level failed on a pin that was
\* written as an OUTPUT before and has been set back to INPUT since.
WriteRefusedAfterSetBack ==
    /\ last_call = <<"digitalWrite", 13, "HAL_HIGH">>
    /\ ret[1] = "throw"
    /\ digital_pin_modes_[13] = "HAL_INPUT"
    /\ digital_pin_values_[13] = "HAL_LOW"

\* C11: analogRead(pin) returns the value last given to test_setAnalogPin for
\* that pin (0 if none was), and no call but a test_setAnalogPin on that very
\* pin (not a set of another analog pin, a PWM or digital write, a mode change
\* or a delay) changes what analogRead returns for it.
AnalogReadReturnsLastSet ==
    [][/\ last_call'[1] = "analogRead"
             => ret' = <<"int", last_set[last_call'[2]]>>
       /\ \A p \in DOMAIN analog_pin_values_ :
             (last_call'[1] # "test_setAnalogPin" \/ last_call'[2] # p)
                => HalApi_analogRead(analog_pin_values_', p)
                       = HalApi_analogRead(analog_pin_values_, p)]_vars

\* C11 witness: analogRead of pin 3 returns the 0 it has held from the start
\* after pin 0 was set to 1023, a PWM value was written, a pin was made an
\* output and the clock was advanced.
ReadAfterOtherPinSet ==
    /\ last_call = <<"analogRead", 3>>
    /\ ret = <<"int", 0>>
    /\ last_set[0] = 1023
    /\ pwm_pin_values_[PWM_3] = 255
    /\ digital_pin_modes_[13] = "HAL_OUTPUT"
    /\ ndelay > 0

\* C14: the store is empty at boot: in the initial state, before any alarm
\* call (alarm_init included) has been made, alarm_available returns false
\* and alarm_read returns VC_STATUS_FAILURE.
StoreEmptyAtBoot ==
    [][last_call = <<"boot">>
       => /\ last_call'[1] = "alarm_available" => ret' = <<"bool", FALSE>>
          /\ last_call'[1] = "alarm_read"
                => ret' = <<"status", VC_STATUS_FAILURE>>]_vars

\* a <= b for two uint32_t values.
U32Leq(a, b) == a[1] < b[1] \/ (a[1] = b[1] /\ a[2] <= b[2])

\* The timestamps of the stored alarms do not decrease from the bottom of the
\* stack to its top.
TimestampsSorted ==
    \A i, j \in 0 .. stack.top :
        i <= j => U32Leq(stack.alarm[i].timestamp, stack.alarm[j].timestamp)

PwmWriteNeedsOutput ==
    [][(last_call'[1] = "analogWrite"
          /\ digital_pin_modes_[last_call'[2]] # "HAL_OUTPUT")
       => /\ ret'[1] = "throw"
          /\ pwm_pin_values_'[last_call'[2]] = pwm_pin_values_[last_call'[2]]]_vars

\* C16, amended: analogWrite is not guarded by the pin's mode: whatever the
\* digital pin mode of the PWM pin, it does not fail, stores the value as the
\* PWM value of that pin and changes no other PWM value, level or mode.
PwmWriteIgnoresMode ==
    [][last_call'[1] = "analogWrite"
       => /\ ret' = <<"void">>
          /\ pwm_pin_values_' =
                [pwm_pin_values_ EXCEPT ![last_call'[2]] = last_call'[3]]
          /\ digital_pin_values_' = digital_pin_values_
          /\ digital_pin_modes_' = digital_pin_modes_]_vars

\* C16 witness: an analogWrite has stored 255 on the PWM pin while the pin's
\* mode, changed since boot, is an input mode and its level is still the one
\* it had at boot.
PwmWrittenOnInputPin ==
    /\ last_call = <<"analogWrite", PWM_3, 255>>
    /\ ret = <<"void">>
    /\ digital_pin_modes_[PWM_3] = "HAL_INPUT_PULLUP"
    /\ pwm_pin_values_[PWM_3] = 255
    /\ digital_pin_values_[PWM_3] = "HAL_HIGH"

\* C17: after alarm_init, alarm_available returns true exactly when
\* alarm_read returns VC_STATUS_SUCCESS, and both exactly when an alarm that
\* was recorded has not been removed yet; an alarm_read made right after an
\* alarm_available that returned true does not fail.
AvailableIffReadable ==
    /\ [](inited => /\ alarm_available(stack) <=> (hist # <<>>)
                    /\ (alarm_read(stack, Garbage).status = VC_STATUS_SUCCESS)
                          <=> (hist # <<>>))
    /\ [][/\ (inited /\ last_call'[1] = "alarm_available")
             => ret' = <<"bool", hist # <<>>>>
          /\ (inited /\ last_call'[1] = "alarm_read")
             => ret' = <<"status", IF hist # <<>> THEN VC_STATUS_SUCCESS
                                                  ELSE VC_STATUS_FAILURE>>
          /\ (inited /\ last_call = <<"alarm_available">> /\ ret = <<"bool", TRUE>>
                /\ last_call'[1] = "alarm_read")
             => ret' = <<"status", VC_STATUS_SUCCESS>>]_vars

\* C17 witness: alarm_available has just returned true on a store that holds
\* one alarm after a second one was recorded and removed.
AvailableWithOneLeft ==
    /\ inited
    /\ last_call = <<"alarm_available">>
    /\ ret = <<"bool", TRUE>>
    /\ Len(hist) = 1
    /\ stack.alarm[1] # ZeroAlarm

\* The sequence s from its last element to its first.
Reverse(s) == [i \in 1 .. Len(s) |-> s[Len(s) + 1 - i]]

\* C18: a consumer that, on an initialized store holding n alarms, repeats
\* alarm_read and alarm_remove while alarm_available returns true, with no
\* alarm_add in between, comes to the end of its loop; it has then made
\* exactly n removes, each of its reads has succeeded, the records read are
\* the n stored ones, each once, from the top down, and alarm_available has
\* returned false.
DrainTerminates ==
    /\ [](consumer.pc # "idle" => consumer.removes <= consumer.n)
    /\ [](consumer.pc = "done"
            => /\ consumer.removes = consumer.n
               /\ consumer.log = Reverse(consumer.snap)
               /\ last_call = <<"alarm_available">> /\ ret = <<"bool", FALSE>>
               /\ ~alarm_available(stack))
    /\ (consumer.pc = "check") ~> (consumer.pc = "done")

\* C18 witness: the loop has ended after draining a full store whose alarms
\* differed from one another.
DrainedFullStore ==
    /\ consumer.pc = "done"
    /\ consumer.n = ALARM_NODES
    /\ consumer.removes = ALARM_NODES
    /\ Len(consumer.log) = ALARM_NODES
    /\ consumer.log[1] # consumer.log[2]
    /\ stack.top = -1

RoundTripWithinTolerance ==
    bench.back.read
    => F32LeqPos(F32Abs(F32Sub(bench.back.value, bench.pressureIn.at[1])),
                 COMPARISON_TOLERANCE)

\* C13 witness: 2 kPa, the top of the MPXV7002's range, came back through
\* both equations as a float other than the one that went in.
RoundTripAtFullScale ==
    /\ bench.sensor = "MPXV7002"
    /\ bench.back.read
    /\ bench.pressureIn.at[1] = F32FromInt(2)
    /\ bench.back.value # bench.pressureIn.at[1]

====
